---- MODULE Spec2Model ----
(***************************************************************************)
(* Model of src/main.py: the card-cover collage pipeline.                  *)
(*                                                                         *)
(*   Spec         one run of main(): parse_args, gather the input files,   *)
(*                process_image per file, then one create_collage call per *)
(*                chunk of COLUMNS*ROWS processed images.                  *)
(*   SpecCollage  create_collage called directly with any chunk, canvas    *)
(*                index and format value.                                  *)
(*   SpecSampler  get_bottom_color / get_bottom_average_color and the      *)
(*                colour step of process_image on small pixel buffers.     *)
(*                                                                         *)
(* Lengths in cm are pairs <<numerator, denominator>> (5.4 is <<54, 10>>). *)
(* A colour is a triple <<R, G, B>>.  A path "output/final_canvas_3.png"   *)
(* is the pair <<3, ".png">>.                                              *)
(***************************************************************************)
EXTENDS Integers, Sequences, FiniteSets, TLC

(***************************************************************************)
(* Bounds of the model                                                     *)
(***************************************************************************)
\* largest number of entries of images/ (401 entries hold 301 qualifying files:
\* two full canvases and one image more)
MaxEntries == 401
\* direct create_collage calls take chunks of up to COLUMNS*ROWS + MaxExtra images
MaxExtra == 1
\* direct create_collage calls take canvas indices 0..MaxIndex
MaxIndex == 1
\* sampled source images are at most MaxWidth x MaxHeight with at most MaxPixels pixels
MaxWidth == 2
MaxHeight == 6
MaxPixels == 6
\* get_bottom_color / get_bottom_average_color are called with strip_height 0..MaxStrip
MaxStrip == 5

(***************************************************************************)
(* Global constants, src/main.py:11-42                                     *)
(***************************************************************************)
AVERAGE_COLOR == FALSE
DPI == 300

RoundHalfEven(num, den) ==
    LET q == num \div den
        r == num % den
    IN  IF 2 * r < den THEN q
        ELSE IF 2 * r > den THEN q + 1
        ELSE IF q % 2 = 0 THEN q ELSE q + 1

\* round(cm * (DPI / 2.54)), Python's round (ties to even)
CM_TO_PX(cm) == RoundHalfEven(cm[1] * DPI * 100, cm[2] * 254)

CANVAS_CM == <<90, 1>>
CANVAS_SIZE == CM_TO_PX(CANVAS_CM)
COLUMNS == 15
ROWS == 10

CELL_WIDTH == CANVAS_SIZE \div COLUMNS
CELL_HEIGHT == CANVAS_SIZE \div ROWS

IMAGE_WIDTH_CM == <<54, 10>>
IMAGE_HEIGHT_CM == <<856, 100>>
EXTEND_COLOR_CM == <<15, 100>>
WHITE_BORDER_CM == <<0, 1>>

EXTEND_TOP_BOTTOM == 30
EXTEND_LEFT_RIGHT == 15

BASE_IMAGE_WIDTH_PX == CM_TO_PX(IMAGE_WIDTH_CM)
BASE_IMAGE_HEIGHT_PX == CM_TO_PX(IMAGE_HEIGHT_CM)
EXTEND_COLOR_PX == CM_TO_PX(EXTEND_COLOR_CM)
WHITE_BORDER_PX == CM_TO_PX(WHITE_BORDER_CM)

DESIGN_FINAL_WIDTH_PX == BASE_IMAGE_WIDTH_PX + 2 * (EXTEND_COLOR_PX + WHITE_BORDER_PX)
DESIGN_FINAL_HEIGHT_PX == BASE_IMAGE_HEIGHT_PX + 2 * (EXTEND_COLOR_PX + WHITE_BORDER_PX)

\* max_images_per_canvas of main()
max_images_per_canvas == COLUMNS * ROWS

(***************************************************************************)
(* State                                                                   *)
(***************************************************************************)
VARIABLES
    pc,               \* control position
    caller,           \* who called create_collage: "main" or "direct"
    input_dir,        \* the entries of images/, in os.listdir order
    output_format,    \* args.format / the output_format argument
    files,            \* main(): the gathered file list
    processed_images, \* main(): the images process_image returned so far
    i,                \* main(): the chunk loop's variable
    chunk,            \* create_collage: its processed_images argument
    canvas_index,     \* create_collage: its canvas_index argument
    canvas,           \* create_collage: the pastes made into the white canvas
    ci,               \* create_collage: the enumerate index of the paste loop
    outdir,           \* the files of output/
    calls,            \* history: the create_collage calls made, in order
    writes,           \* history: the paths written in output/, in order
    error,            \* what was raised: [kind, at], kind "none" while nothing was
    image,            \* sampler: the source image [w, h, px], px row-major
    strip_height,     \* sampler: the strip_height argument
    result            \* sampler: what the applied function returned, op "none" before

vars == <<pc, caller, input_dir, output_format, files, processed_images, i,
          chunk, canvas_index, canvas, ci, outdir, calls, writes, error,
          image, strip_height, result>>

samplerVars == <<image, strip_height, result>>

mainVars == <<files, processed_images, i>>
collageVars == <<chunk, canvas_index, canvas, ci>>

Range(s) == {s[k] : k \in 1..Len(s)}
Iota(n) == [k \in 1..n |-> k]
Min(a, b) == IF a < b THEN a ELSE b

\* Python's seq[a:b] for 0 <= a, on a 1-based sequence
Slice(s, a, b) == SubSeq(s, a + 1, Min(b, Len(s)))

\* the values --format accepts, and one value argparse rejects
FormatChoices == {"png", "pdf", "svg", "ai"}
OtherFormats == {"bmp"}

(***************************************************************************)
(* main(), src/main.py:228-258                                             *)
(***************************************************************************)
\* an exception reaching main's `except Exception`: printed, the run ends
MainCatch(kind, at) ==
    /\ pc' = "done"
    /\ error' = [kind |-> kind, at |-> at]

\* parse_args(): argparse exits the process on a value outside `choices`
ParseArgs ==
    /\ pc = "parse"
    /\ \E f \in FormatChoices \cup OtherFormats :
          IF f \in FormatChoices
          THEN /\ output_format' = f
               /\ pc' = "gather"
          ELSE /\ output_format' = output_format
               /\ pc' = "exit"
    /\ UNCHANGED <<caller, input_dir, mainVars, collageVars, outdir, calls, writes, error, samplerVars>>

\* the name of directory entry k ends in one of four extensions, in turn
ExtOf(k) ==
    CASE k % 4 = 1 -> ".png"
      [] k % 4 = 2 -> ".JPG"
      [] k % 4 = 3 -> ".jpeg"
      [] OTHER -> ".txt"

\* str.lower() on those extensions
Lower(ext) == IF ext = ".JPG" THEN ".jpg" ELSE ext

\* file.lower().endswith((".png", ".jpg", ".jpeg"))
Qualifies(k) == Lower(ExtOf(k)) \in {".png", ".jpg", ".jpeg"}

\* os.makedirs(output_dir, exist_ok=True) and the filtered listing of images/
MainGather ==
    /\ pc = "gather"
    /\ files' = SelectSeq(input_dir, Qualifies)
    /\ pc' = "process"
    /\ UNCHANGED <<caller, input_dir, output_format, processed_images, i,
                   collageVars, outdir, calls, writes, error, samplerVars>>

\* MainProcess with the failure caught per image: the bad file is dropped from the
\* list and the comprehension goes on
MainProcess_SkipBad ==
    /\ pc = "process"
    /\ Len(processed_images) < Len(files)
    /\ \/ /\ processed_images' = Append(processed_images, files[Len(processed_images) + 1])
          /\ UNCHANGED <<pc, error, files>>
       \/ /\ error' = [kind |-> "process_image", at |-> files[Len(processed_images) + 1]]
          /\ files' = SubSeq(files, 1, Len(processed_images))
                         \o SubSeq(files, Len(processed_images) + 2, Len(files))
          /\ UNCHANGED <<pc, processed_images>>
    /\ UNCHANGED <<caller, input_dir, output_format, i,
                   collageVars, outdir, calls, writes, samplerVars>>

\* one step of [process_image(file) for file in files]: the image, or an exception
MainProcess ==
    /\ pc = "process"
    /\ Len(processed_images) < Len(files)
    /\ \/ /\ processed_images' = Append(processed_images, files[Len(processed_images) + 1])
          /\ UNCHANGED <<pc, error>>
       \/ /\ MainCatch("process_image", files[Len(processed_images) + 1])
          /\ UNCHANGED processed_images
    /\ UNCHANGED <<caller, input_dir, output_format, files, i,
                   collageVars, outdir, calls, writes, samplerVars>>

\* the comprehension is complete: enter the chunk loop at i = 0
MainProcessed ==
    /\ pc = "process"
    /\ Len(processed_images) = Len(files)
    /\ pc' = "loop"
    /\ i' = 0
    /\ UNCHANGED <<caller, input_dir, output_format, files, processed_images,
                   collageVars, outdir, calls, writes, error, samplerVars>>

\* ChunkOf with an inclusive slice end
ChunkOf_Inclusive(n) == Slice(processed_images, n, n + max_images_per_canvas + 1)

\* IndexOf with the remainder taken for the quotient
IndexOf_Remainder(n) == n % max_images_per_canvas

\* the arguments main() passes to create_collage at loop value n
ChunkOf(n) == Slice(processed_images, n, n + max_images_per_canvas)
IndexOf(n) == n \div max_images_per_canvas

\* MainLoop with the range's stop included
MainLoop_StopIncluded ==
    /\ pc = "loop"
    /\ IF i <= Len(processed_images)
       THEN /\ chunk' = Slice(processed_images, i, i + max_images_per_canvas)
            /\ canvas_index' = i \div max_images_per_canvas
            /\ canvas' = <<>>
            /\ ci' = 0
            /\ calls' = Append(calls, [images |-> Slice(processed_images, i, i + max_images_per_canvas),
                                       index |-> i \div max_images_per_canvas])
            /\ pc' = "paste"
       ELSE /\ pc' = "done"
            /\ UNCHANGED <<collageVars, calls>>
    /\ UNCHANGED <<caller, input_dir, output_format, mainVars, outdir, writes, error, samplerVars>>

\* for i in range(0, len(processed_images), max_images_per_canvas): call or leave
MainLoop ==
    /\ pc = "loop"
    /\ IF i < Len(processed_images)
       THEN /\ chunk' = ChunkOf(i)
            /\ canvas_index' = IndexOf(i)
            /\ canvas' = <<>>
            /\ ci' = 0
            /\ calls' = Append(calls, [images |-> ChunkOf(i), index |-> IndexOf(i)])
            /\ pc' = "paste"
       ELSE /\ pc' = "done"
            /\ UNCHANGED <<collageVars, calls>>
    /\ UNCHANGED <<caller, input_dir, output_format, mainVars, outdir, writes, error, samplerVars>>

(***************************************************************************)
(* create_collage, src/main.py:136-183                                     *)
(***************************************************************************)
\* CellRow dividing by the number of rows instead of the number of columns
CellRow_ByRows(k) == k \div ROWS

\* row, col, x, y of the paste loop at enumerate index k
CellRow(k) == k \div COLUMNS
CellCol(k) == k % COLUMNS
PasteX(k) == CellCol(k) * CELL_WIDTH
PasteY(k) == CellRow(k) * CELL_HEIGHT

\* ImageOps_fit leaving the image at its design size (pasted without fitting)
ImageOps_fit_Unfitted(img, size) ==
    [img |-> img, w |-> DESIGN_FINAL_WIDTH_PX, h |-> DESIGN_FINAL_HEIGHT_PX]

\* ImageOps.fit(img, size, ...): img scaled and centre-cropped to exactly `size`
ImageOps_fit(img, size) == [img |-> img, w |-> size[1], h |-> size[2]]

\* canvas.paste(im, (x, y)): the region written, clipped to the canvas
PasteRegion(im, x, y) ==
    [img |-> im.img, k |-> ci,
     x0 |-> x, y0 |-> y,
     x1 |-> Min(x + im.w, CANVAS_SIZE), y1 |-> Min(y + im.h, CANVAS_SIZE)]

\* an exception leaving create_collage: caught by main(), or seen by a direct caller
Raise(kind) ==
    IF caller = "main"
    THEN MainCatch(kind, canvas_index)
    ELSE /\ pc' = "raised"
         /\ error' = [kind |-> kind, at |-> canvas_index]

\* create_collage returns: main()'s loop goes on with the next chunk
Return ==
    IF caller = "main"
    THEN /\ pc' = "loop"
         /\ i' = i + max_images_per_canvas
    ELSE /\ pc' = "returned"
         /\ i' = i

\* one iteration of `for i, img in enumerate(processed_images)`
CollagePaste ==
    /\ pc = "paste"
    /\ ci < Len(chunk)
    /\ LET fitted_img == ImageOps_fit(chunk[ci + 1], <<CELL_WIDTH, CELL_HEIGHT>>)
       IN  canvas' = Append(canvas, PasteRegion(fitted_img, PasteX(ci), PasteY(ci)))
    /\ ci' = ci + 1
    /\ UNCHANGED <<pc, caller, input_dir, output_format, mainVars, chunk, canvas_index,
                   outdir, calls, writes, error, samplerVars>>

\* the if/elif chain on output_format: the suffix of out_path and the encoder
OutSuffix(fmt) ==
    IF fmt = "png" THEN ".png"
    ELSE IF fmt = "pdf" THEN ".pdf"
    ELSE IF fmt = "svg" THEN ".svg"
    ELSE IF fmt = "ai" THEN ".eps"
    ELSE ".png"

\* Encoder handing an unrecognised format value on to the encoder
Encoder_PassThrough(fmt) ==
    IF fmt = "png" THEN "PNG"
    ELSE IF fmt = "pdf" THEN "PDF"
    ELSE IF fmt = "svg" THEN "SVG"
    ELSE IF fmt = "ai" THEN "EPS"
    ELSE fmt

Encoder(fmt) ==
    IF fmt = "png" THEN "PNG"
    ELSE IF fmt = "pdf" THEN "PDF"
    ELSE IF fmt = "svg" THEN "SVG"
    ELSE IF fmt = "ai" THEN "EPS"
    ELSE "PNG"

\* os.path.join("output", base_name + suffix)
OutPath(index, suffix) == <<index, suffix>>

\* a file of output/: its path, its encoding, whether it was written completely,
\* and how many images the canvas held when it was written
FileOf(path, enc, complete) ==
    [path |-> path, enc |-> enc, complete |-> complete, pasted |-> Len(canvas)]

\* output/ after `path` is (over)written with file f
Written(f) == {g \in outdir : g.path # f.path} \cup {f}

\* canvas.save(path, enc): the file is written, or the save raises and leaves no file
SaveFile(path, enc, next) ==
    \/ /\ outdir' = Written(FileOf(path, enc, TRUE))
       /\ writes' = Append(writes, path)
       /\ next
    \/ /\ UNCHANGED <<outdir, writes, i>>
       /\ Raise("io")

\* open(path, "w") and write(): the file is written; or open raises and leaves no
\* file; or write raises and leaves the file opened for writing, incomplete
WriteFile(path, enc, next) ==
    \/ /\ outdir' = Written(FileOf(path, enc, TRUE))
       /\ writes' = Append(writes, path)
       /\ next
    \/ /\ UNCHANGED <<outdir, writes, i>>
       /\ Raise("io")
    \/ /\ outdir' = Written(FileOf(path, enc, FALSE))
       /\ writes' = Append(writes, path)
       /\ Raise("io")
       /\ UNCHANGED i

\* the paste loop is over: canvas.save(out_path, ...), or for svg the temporary PNG
CollageSave ==
    /\ pc = "paste"
    /\ ci = Len(chunk)
    /\ IF output_format = "svg"
       THEN SaveFile(OutPath(canvas_index, "_temp.png"), "PNG",
                      /\ pc' = "embed"
                      /\ UNCHANGED <<i, error>>)
       ELSE SaveFile(OutPath(canvas_index, OutSuffix(output_format)),
                      Encoder(output_format),
                      /\ Return
                      /\ UNCHANGED error)
    /\ UNCHANGED <<caller, input_dir, output_format, files, processed_images,
                   collageVars, calls, samplerVars>>

\* embed_png_in_svg(png_path, svg_path, ...), src/main.py:186-211
CollageEmbed ==
    /\ pc = "embed"
    /\ WriteFile(OutPath(canvas_index, ".svg"), "SVG",
                 /\ pc' = "remove"
                 /\ UNCHANGED <<i, error>>)
    /\ UNCHANGED <<caller, input_dir, output_format, files, processed_images,
                   collageVars, calls, samplerVars>>

\* os.remove(png_path), then the function returns
CollageRemove ==
    /\ pc = "remove"
    /\ \/ /\ outdir' = {g \in outdir : g.path # OutPath(canvas_index, "_temp.png")}
          /\ Return
          /\ UNCHANGED error
       \/ /\ UNCHANGED <<outdir, i>>
          /\ Raise("io")
    /\ UNCHANGED <<caller, input_dir, output_format, files, processed_images,
                   collageVars, calls, writes, samplerVars>>

(***************************************************************************)
(* Colour sampling, src/main.py:49-93, and process_image, src/main.py:100-129 *)
(***************************************************************************)
White == <<255, 255, 255>>
Black == <<0, 0, 0>>
Red == <<255, 0, 0>>
Colors == {White, Black, Red}

\* the pixel (x, y) of an RGB image, 0-based
PixelAt(img, x, y) == img.px[y * img.w + x + 1]

\* image.crop((left, top, right, bottom)): a new (right-left) x (bottom-top) image;
\* the part of the box that lies outside the image is filled with zeros (black)
Crop(img, left, top, right, bottom) ==
    LET cw == right - left
        ch == bottom - top
    IN  [w |-> cw, h |-> ch,
         px |-> [k \in 1..(cw * ch) |->
                    LET x == ((k - 1) % cw) + left
                        y == ((k - 1) \div cw) + top
                    IN  IF x >= 0 /\ x < img.w /\ y >= 0 /\ y < img.h
                        THEN PixelAt(img, x, y)
                        ELSE Black]]

\* list(bottom_strip.getdata()) of the crop both samplers take
BottomStripPixels(img, sh) == Crop(img, 0, img.h - sh, img.w, img.h).px

\* [p for p in pixels if p != (255, 255, 255)]
NonWhite(pixels) == SelectSeq(pixels, LAMBDA p : p # White)

Count(pixels, c) == Cardinality({k \in 1..Len(pixels) : pixels[k] = c})
FirstIndex(pixels, c) == CHOOSE k \in 1..Len(pixels) :
                            /\ pixels[k] = c
                            /\ \A j \in 1..(k - 1) : pixels[j] # c

\* Counter(pixels).most_common(1)[0][0]: the highest count, the first seen on a tie
MostCommon(pixels) ==
    CHOOSE c \in Range(pixels) :
        \A d \in Range(pixels) \ {c} :
            \/ Count(pixels, c) > Count(pixels, d)
            \/ /\ Count(pixels, c) = Count(pixels, d)
               /\ FirstIndex(pixels, c) < FirstIndex(pixels, d)

\* get_bottom_color without the filter on white pixels
get_bottom_color_Unfiltered(img, sh) ==
    LET pixels == BottomStripPixels(img, sh)
    IN  IF pixels # <<>>
        THEN MostCommon(pixels)
        ELSE White

get_bottom_color(img, sh) ==
    LET non_white_pixels == NonWhite(BottomStripPixels(img, sh))
    IN  IF non_white_pixels # <<>>
        THEN MostCommon(non_white_pixels)
        ELSE White

RECURSIVE SumChannel(_, _)
SumChannel(pixels, ch) ==
    IF pixels = <<>> THEN 0 ELSE Head(pixels)[ch] + SumChannel(Tail(pixels), ch)

get_bottom_average_color(img, sh) ==
    LET pixels == BottomStripPixels(img, sh)
        num_pixels == Len(pixels)
    IN  IF num_pixels = 0
        THEN White
        ELSE <<SumChannel(pixels, 1) \div num_pixels,
               SumChannel(pixels, 2) \div num_pixels,
               SumChannel(pixels, 3) \div num_pixels>>

\* the strip_height process_image passes to either sampler
STRIP_HEIGHT == 5

\* bottom_avg_color of process_image
BorderColor(img) ==
    IF AVERAGE_COLOR
    THEN get_bottom_average_color(img, STRIP_HEIGHT)
    ELSE get_bottom_color(img, STRIP_HEIGHT)

\* ImageOps.expand(image, border=(left, top, right, bottom), fill): the new size
ExpandSize(size, left, top, right, bottom) ==
    <<left + size[1] + right, top + size[2] + bottom>>

\* process_image once the file is decoded: border colour, extended size, final size
process_image(img) ==
    LET bottom_avg_color == BorderColor(img)
        extended == ExpandSize(<<img.w, img.h>>, EXTEND_LEFT_RIGHT, EXTEND_TOP_BOTTOM,
                               EXTEND_LEFT_RIGHT, EXTEND_TOP_BOTTOM)
        bordered == IF WHITE_BORDER_PX > 0
                    THEN ExpandSize(extended, WHITE_BORDER_PX, WHITE_BORDER_PX,
                                    WHITE_BORDER_PX, WHITE_BORDER_PX)
                    ELSE extended
    IN  [op |-> "process_image", color |-> bottom_avg_color, extended |-> bordered,
         size |-> <<DESIGN_FINAL_WIDTH_PX, DESIGN_FINAL_HEIGHT_PX>>]

pipelineVars == <<caller, input_dir, output_format, mainVars, collageVars,
                  outdir, calls, writes, error>>

SampleMode ==
    /\ pc = "sampler"
    /\ result' = [op |-> "get_bottom_color", color |-> get_bottom_color(image, strip_height)]
    /\ pc' = "sampled"
    /\ UNCHANGED <<pipelineVars, image, strip_height>>

SampleAverage ==
    /\ pc = "sampler"
    /\ result' = [op |-> "get_bottom_average_color",
                  color |-> get_bottom_average_color(image, strip_height)]
    /\ pc' = "sampled"
    /\ UNCHANGED <<pipelineVars, image, strip_height>>

ProcessImage ==
    /\ pc = "sampler"
    /\ result' = process_image(image)
    /\ pc' = "sampled"
    /\ UNCHANGED <<pipelineVars, image, strip_height>>

(***************************************************************************)
(* Specifications                                                          *)
(***************************************************************************)
NoImage == [w |-> 0, h |-> 0, px |-> <<>>]

InitCommon ==
    /\ files = <<>>
    /\ processed_images = <<>>
    /\ i = 0
    /\ canvas = <<>>
    /\ ci = 0
    /\ outdir = {}
    /\ writes = <<>>
    /\ error = [kind |-> "none", at |-> 0]
    /\ image = NoImage
    /\ strip_height = 0
    /\ result = [op |-> "none"]

\* a run of main(): images/ holds any number of entries
Init ==
    /\ pc = "parse"
    /\ caller = "main"
    /\ \E n \in 0..MaxEntries : input_dir = Iota(n)
    /\ output_format = "unset"
    /\ chunk = <<>>
    /\ canvas_index = 0
    /\ calls = <<>>
    /\ InitCommon

Next ==
    \/ ParseArgs
    \/ MainGather
    \/ MainProcess
    \/ MainProcessed
    \/ MainLoop
    \/ CollagePaste
    \/ CollageSave
    \/ CollageEmbed
    \/ CollageRemove

Spec == Init /\ [][Next]_vars

\* create_collage called directly, after its line 141 made the white canvas
InitCollage ==
    /\ pc = "paste"
    /\ caller = "direct"
    /\ input_dir = <<>>
    /\ output_format \in FormatChoices \cup OtherFormats
    /\ \E n \in 0..(max_images_per_canvas + MaxExtra) : chunk = Iota(n)
    /\ canvas_index \in 0..MaxIndex
    /\ calls = <<[images |-> chunk, index |-> canvas_index]>>
    /\ InitCommon

NextCollage ==
    \/ CollagePaste
    \/ CollageSave
    \/ CollageEmbed
    \/ CollageRemove

SpecCollage == InitCollage /\ [][NextCollage]_vars

\* the samplers and process_image applied to any small RGB image: a decoded image
\* has at least one row and one column; the zero-size image is the 0 x 0 one
InitSampler ==
    /\ pc = "sampler"
    /\ caller = "direct"
    /\ input_dir = <<>>
    /\ output_format = "unset"
    /\ files = <<>>
    /\ processed_images = <<>>
    /\ i = 0
    /\ chunk = <<>>
    /\ canvas_index = 0
    /\ canvas = <<>>
    /\ ci = 0
    /\ outdir = {}
    /\ calls = <<>>
    /\ writes = <<>>
    /\ error = [kind |-> "none", at |-> 0]
    /\ \E w \in 0..MaxWidth, h \in 0..MaxHeight :
          /\ w * h <= MaxPixels
          /\ (w = 0) <=> (h = 0)
          /\ \E px \in [1..(w * h) -> Colors] : image = [w |-> w, h |-> h, px |-> px]
    /\ strip_height \in 0..MaxStrip
    /\ result = [op |-> "none"]

NextSampler ==
    \/ SampleMode
    \/ SampleAverage
    \/ ProcessImage

SpecSampler == InitSampler /\ [][NextSampler]_vars

(***************************************************************************)
(* Properties of a run of main()                                           *)
(***************************************************************************)
Ceil(n, k) == (n + k - 1) \div k

\* the run ended with every create_collage call returned
Completed == pc = "done" /\ error.kind = "none"

\* the images of the calls made so far, canvas after canvas
RECURSIVE Concat(_)
Concat(cs) == IF cs = <<>> THEN <<>> ELSE Head(cs).images \o Concat(Tail(cs))

NoDuplicates(s) == \A a, b \in 1..Len(s) : a # b => s[a] # s[b]

\* C1: with N processed images and K = COLUMNS*ROWS, main() calls create_collage
\* ceil(N/K) times; each of the first floor(N/K) calls receives K images and, when K
\* does not divide N, the last receives N mod K; with no image there is no call, no
\* output file and no error.  The count is reached by every run in which no call
\* raised; a run a raising call ended has made at most that many calls, each of
\* the stated size.
C1_CanvasCount ==
    LET N == Len(processed_images)
        K == max_images_per_canvas
    IN  /\ Len(calls) <= Ceil(N, K)
        /\ \A j \in 1..Len(calls) :
              Len(calls[j].images) = (IF j <= N \div K THEN K ELSE N % K)
        /\ Completed => Len(calls) = Ceil(N, K)
        /\ (pc = "done" /\ files = <<>>) =>
              /\ calls = <<>>
              /\ outdir = {}
              /\ error.kind = "none"

\* N = 301: two full canvases and a third holding one image
C1_Witness ==
    /\ Completed
    /\ Len(processed_images) = 2 * max_images_per_canvas + 1
    /\ Len(calls) = 3
    /\ Len(calls[2].images) = max_images_per_canvas
    /\ Len(calls[3].images) = 1

\* C2: when process_image raises for a file the run is over: the images processed
\* are exactly those of the files before it (it is not skipped, nothing after it is
\* processed), create_collage is never called, nothing is written to output/, and
\* no further step is taken.
C2_AbortOnProcessFailure ==
    error.kind = "process_image" =>
        /\ pc = "done"
        /\ \E k \in 1..Len(files) :
              /\ files[k] = error.at
              /\ processed_images = SubSeq(files, 1, k - 1)
        /\ calls = <<>>
        /\ canvas = <<>>
        /\ writes = <<>>
        /\ outdir = {}
        /\ ~ENABLED Next

\* the third of five files fails
C2_Witness ==
    /\ error.kind = "process_image"
    /\ Len(files) = 5
    /\ error.at = files[3]
    /\ Len(processed_images) = 2

\* C3: the chunks passed to create_collage are contiguous slices of the processed
\* sequence in order: concatenated they are a prefix of it, and all of it once the
\* run completed; no chunk exceeds COLUMNS*ROWS images; inside a call the k-th paste
\* takes the k-th image of the chunk into the cell of index k - 1, so no image is
\* pasted twice or into two cells, and the canvas saved holds the whole chunk.
C3_ChunksPartitionInput ==
    LET done == Concat(calls)
    IN  /\ Len(done) <= Len(processed_images)
        /\ done = SubSeq(processed_images, 1, Len(done))
        /\ \A j \in 1..Len(calls) :
              /\ Len(calls[j].images) <= COLUMNS * ROWS
              /\ Len(calls[j].images) >= 1
        /\ Completed => /\ done = processed_images
                        /\ processed_images = files
        /\ Len(canvas) = ci
        /\ ci <= Len(chunk)
        /\ \A k \in 1..Len(canvas) :
              /\ canvas[k].img = chunk[k]
              /\ (canvas[k].y0 \div CELL_HEIGHT) * COLUMNS
                    + (canvas[k].x0 \div CELL_WIDTH) = k - 1
        /\ calls # <<>> => chunk = calls[Len(calls)].images
        /\ \A f \in outdir : f.complete /\ f.path[1] = canvas_index => f.pasted = Len(chunk)

\* 151 images: the second canvas has taken image 151 into its cell 0
C3_Witness ==
    /\ Len(processed_images) = max_images_per_canvas + 1
    /\ Len(calls) = 2
    /\ canvas # <<>>
    /\ canvas[1].img = processed_images[max_images_per_canvas + 1]
    /\ calls[1].images = SubSeq(processed_images, 1, max_images_per_canvas)

\* C5: the canvas indices passed to create_collage are 0, 1, 2, ... in call order,
\* and no path of output/ is written twice in a run: the files of distinct
\* canvases are distinct files.
C5_IndicesIncreasePathsDistinct ==
    /\ \A j \in 1..Len(calls) : calls[j].index = j - 1
    /\ NoDuplicates(writes)
    /\ \A f, g \in outdir : f.path = g.path => f = g
    /\ \A f \in outdir : f.path[1] \in 0..(Len(calls) - 1)
    /\ Completed => Cardinality(outdir) = Len(calls)

\* three canvases written to three files
C5_Witness ==
    /\ Completed
    /\ Len(calls) = 3
    /\ {f.path : f \in outdir} = {<<0, ".pdf">>, <<1, ".pdf">>, <<2, ".pdf">>}

\* C6: a canvas is written once, after all pastes of its chunk; when the run is
\* over, completed or aborted, output/ holds complete final files only: no
\* incomplete file and no final_canvas_<index>_temp.png.
C6_NoPartialOrTemporaryOutput ==
    /\ NoDuplicates(writes)
    /\ \A f \in outdir : f.path[1] = canvas_index => f.pasted = Len(chunk)
    /\ pc = "done" => \A f \in outdir : f.complete /\ f.path[2] # "_temp.png"

(***************************************************************************)
(* Properties of create_collage                                            *)
(***************************************************************************)
Cells == 0..(COLUMNS * ROWS - 1)

\* the rectangle [x0, x1) x [y0, y1) of the cell of index j
CellRect(j) ==
    [x0 |-> (j % COLUMNS) * CELL_WIDTH, y0 |-> (j \div COLUMNS) * CELL_HEIGHT,
     x1 |-> (j % COLUMNS) * CELL_WIDTH + CELL_WIDTH,
     y1 |-> (j \div COLUMNS) * CELL_HEIGHT + CELL_HEIGHT]

NonEmptyRect(r) == r.x0 < r.x1 /\ r.y0 < r.y1

\* two rectangles share a pixel
Overlap(a, b) ==
    /\ NonEmptyRect(a)
    /\ NonEmptyRect(b)
    /\ a.x0 < b.x1
    /\ b.x0 < a.x1
    /\ a.y0 < b.y1
    /\ b.y0 < a.y1

\* what integer truncation of the cell size leaves right of and below the grid
LeftoverStrips ==
    {[x0 |-> COLUMNS * CELL_WIDTH, y0 |-> 0, x1 |-> CANVAS_SIZE, y1 |-> CANVAS_SIZE],
     [x0 |-> 0, y0 |-> ROWS * CELL_HEIGHT, x1 |-> CANVAS_SIZE, y1 |-> CANVAS_SIZE]}

GridDisjoint == \A a, b \in Cells : a # b => ~Overlap(CellRect(a), CellRect(b))

GridInsideCanvas ==
    \A a \in Cells :
        /\ 0 <= CellRect(a).x0
        /\ 0 <= CellRect(a).y0
        /\ CellRect(a).x1 <= CANVAS_SIZE
        /\ CellRect(a).y1 <= CANVAS_SIZE

\* the paste loop of the current call is over
Composed == pc = "paste" /\ ci = Len(chunk)

\* C4: the image of chunk-local index i < COLUMNS*ROWS is pasted at pixel origin
\* (col * CELL_WIDTH, row * CELL_HEIGHT) with row = i div COLUMNS < ROWS and
\* col = i mod COLUMNS < COLUMNS; index 16 lands in row 1, column 1.
C4_CellPlacement ==
    /\ \A k \in 1..Len(canvas) :
          (k - 1) < COLUMNS * ROWS =>
              LET row == (k - 1) \div COLUMNS
                  col == (k - 1) % COLUMNS
              IN  /\ canvas[k].k = k - 1
                  /\ canvas[k].img = chunk[k]
                  /\ canvas[k].x0 = col * CELL_WIDTH
                  /\ canvas[k].y0 = row * CELL_HEIGHT
                  /\ row < ROWS
                  /\ col < COLUMNS
    /\ Len(canvas) > 16 => /\ canvas[17].x0 = 1 * CELL_WIDTH
                           /\ canvas[17].y0 = 1 * CELL_HEIGHT

\* the paste of index 16 was made, into row 1, column 1
C4_Witness ==
    /\ Len(canvas) = 17
    /\ canvas[17].k = 16
    /\ canvas[17].x0 = CELL_WIDTH
    /\ canvas[17].y0 = CELL_HEIGHT

\* C7: no value of output_format makes create_collage fail: whatever the value the
\* save can go through, and only an I/O failure raises; a call that returns has
\* produced exactly one file, final_canvas_<index> with suffix .png / .pdf / .svg /
\* .eps for png / pdf / svg / ai and .png, encoded as PNG, for any other value.
C7_FormatFallback ==
    LET ext == CASE output_format = "png" -> ".png"
                 [] output_format = "pdf" -> ".pdf"
                 [] output_format = "svg" -> ".svg"
                 [] output_format = "ai" -> ".eps"
                 [] OTHER -> ".png"
        enc == CASE output_format = "png" -> "PNG"
                 [] output_format = "pdf" -> "PDF"
                 [] output_format = "svg" -> "SVG"
                 [] output_format = "ai" -> "EPS"
                 [] OTHER -> "PNG"
    IN  /\ error.kind \in {"none", "io"}
        /\ pc = "raised" <=> error.kind = "io"
        /\ Composed => ENABLED (CollageSave /\ error' = error)
        /\ pc = "returned" =>
              outdir = {[path |-> <<canvas_index, ext>>, enc |-> enc,
                         complete |-> TRUE, pasted |-> Len(chunk)]}

\* a call with a format value outside the four recognised ones returned
C7_Witness ==
    /\ pc = "returned"
    /\ output_format \notin {"png", "pdf", "svg", "ai"}
    /\ chunk # <<>>
    /\ \E f \in outdir : f.path = <<canvas_index, ".png">> /\ f.enc = "PNG"

\* C10: the cell rectangles are pairwise disjoint and inside the canvas; the paste
\* of index k < COLUMNS*ROWS writes exactly the rectangle of cell k; so once a
\* chunk of n images is composed, no paste has touched a cell of index >= n or the
\* strips that truncation of the cell size leaves: they are still white.
C10_PasteStaysInCell ==
    /\ GridDisjoint
    /\ GridInsideCanvas
    /\ \A k \in 1..Len(canvas) :
          (k - 1) < COLUMNS * ROWS =>
              /\ canvas[k].x0 = CellRect(k - 1).x0
              /\ canvas[k].y0 = CellRect(k - 1).y0
              /\ canvas[k].x1 = CellRect(k - 1).x1
              /\ canvas[k].y1 = CellRect(k - 1).y1
    /\ Composed =>
          /\ \A j \in Cells : j >= Len(canvas) =>
                \A k \in 1..Len(canvas) : ~Overlap(canvas[k], CellRect(j))
          /\ \A r \in LeftoverStrips :
                \A k \in 1..Len(canvas) : ~Overlap(canvas[k], r)

\* 23 images composed: cells 0..22 written, cells 23..149 untouched
C10_Witness ==
    /\ Composed
    /\ Len(canvas) = 23
    /\ canvas[23].x1 = CellRect(22).x1
    /\ \E r \in LeftoverStrips : NonEmptyRect(r)

(***************************************************************************)
(* Properties of the colour sampler                                        *)
(***************************************************************************)
\* the bottom strip of height sh of the image itself: its last min(sh, h) rows
ImageStrip(img, sh) ==
    LET top == IF img.h - sh > 0 THEN img.h - sh ELSE 0
    IN  [k \in 1..(img.w * (img.h - top)) |-> img.px[top * img.w + k]]

\* at least 80% of the image's pixels are exact white
WhiteDominant(img) == Count(img.px, White) * 100 >= 80 * Len(img.px)

\* C8: get_bottom_color returns white when the region (the image's bottom strip) is
\* empty or holds no non-white pixel; otherwise a non-white colour of the region
\* whose count is maximal among its non-white colours, so C for a region uniformly
\* of non-white colour C; it never returns a non-white colour absent from the region.
C8_ModeOfRegion ==
    result.op = "get_bottom_color" =>
        LET region == ImageStrip(image, strip_height)
            colour == result.color
        IN  /\ (\A k \in 1..Len(region) : region[k] = White) => colour = White
            /\ (\E k \in 1..Len(region) : region[k] # White) =>
                  /\ colour # White
                  /\ colour \in Range(region)
                  /\ \A d \in Range(region) \ {White} :
                        Count(region, colour) >= Count(region, d)
            /\ colour \in Range(region) \cup {White}

====
